---- MODULE Spec2Model ----
(***************************************************************************)
(* State-machine model of the resumable file copier (src/copier.py):       *)
(* DirectoryCache (the completion ledger), Copier._find_resume_position,   *)
(* Copier.copy_file and the two-pass directory walk, with the SIGINT       *)
(* handler interleaved between the steps of the single program thread,     *)
(* RollingMedian, and the failures the environment can inject: an          *)
(* operation on a file that raises, and the death of the process.          *)
(*                                                                         *)
(* Files are byte sequences.  Offsets are 0-based as in the source; the    *)
(* byte at offset i of a sequence s is s[i+1].                             *)
(***************************************************************************)
EXTENDS Integers, Sequences, FiniteSets, TLC

\* ---------------------------------------------------------------- bounds
MaxLen == 4        \* longest file content drawn as an input
MaxBlock == 2      \* largest block_size given to Copier(block_size=...)
MaxTime == 2       \* modification times are 0..MaxTime; 0 is the epoch
MaxWindow == 3     \* largest window_size given to RollingMedian(window_size=...)
MaxAdds == 4       \* longest sequence of RollingMedian.add calls
ScenarioLen == 10  \* size of the two files of the end-to-end scenario
ScenarioKept == 4  \* bytes its interrupted destination already holds
\* --------------------------------------------------- program constants
ChunkSize == 2     \* f_src.read(5 * 1024 * 1024), scaled to the small files
MaxAge == 1        \* _max_age_in_weeks = 4, scaled to the small clock
TestLen == 10      \* total size of the files of test_find_resume_position
TestBlock == 2     \* Copier(block_size=2) of test_find_resume_position
DefaultWindow == 10  \* RollingMedian.__init__(self, window_size=10)
TestWindow == 3    \* RollingMedian(window_size=3) of test_RollingMedian

Bytes == {0, 1}
Times == 0..MaxTime
Now == MaxTime                 \* the clock of the run: datetime.now(), time of a write
Files == {1, 2}                \* the files os.walk can yield, in walk order
Modes == {"NEW_FILES_ONLY", "ALL_FILES"}

\* what the environment does to a file after os.walk has listed it: nothing;
\* the source is removed; the source cannot be opened; the destination's
\* times cannot be set
FaultKinds == {"none", "vanished", "denied", "utime"}

Min(a, b) == IF a < b THEN a ELSE b
Max(a, b) == IF a > b THEN a ELSE b

SeqsUpTo(n) == UNION {[1..k -> Bytes] : k \in 0..n}
Ones(n) == [i \in 1..n |-> 1]

VARIABLES
  src,        \* src[f]: content of source file f
  srcMtime,   \* srcMtime[f]: os.path.getmtime of source file f
  dstExists,  \* dstExists[f]: os.path.exists of destination file f
  dst,        \* dst[f]: content of destination file f (<<>> when it does not exist)
  dstMtime,   \* dstMtime[f]: os.path.getmtime of destination file f
  disk,       \* the ledger file on storage: a function dst path -> timestamp
  cache,      \* DirectoryCache._cache: a function dst path -> timestamp
  abort,      \* Copier.__abort
  dryRun,     \* Copier.__dry_run
  blockSize,  \* Copier.__block_size
  entry,      \* the call the process was started for: "find", "file", "dir"
  nfiles,     \* number of files os.walk yields
  run,        \* 1 for the first process, 2 for a second process started after it
  mode,       \* copy_mode of the running pass
  idx,        \* the file the walk is at
  pc,         \* position of the program thread
  status,     \* _file_status of the file the walk is at
  total,      \* total_size
  start,      \* start of _find_resume_position
  end,        \* end of _find_resume_position
  resume,     \* resume_position of copy_file
  pos,        \* copied_size: offset of f_src and f_dst in the streaming loop
  chunk,      \* chunk read from f_src
  fault,      \* fault[f]: what the environment does to file f
  windowSize, \* RollingMedian.window_size
  dstDir,     \* os.path.exists(destination_dir)
  window,     \* RollingMedian.window
  hist        \* history: what happened so far (no program state)

vars == <<src, srcMtime, dstExists, dst, dstMtime, disk, cache, abort, dryRun,
          blockSize, entry, nfiles, run, mode, idx, pc, status, total, start,
          end, resume, pos, chunk, fault, windowSize, dstDir, window, hist>>

fsVars == <<src, srcMtime, dstExists, dst, dstMtime>>
cfgVars == <<dryRun, blockSize, entry, nfiles, run>>
findVars == <<total, start, end>>
envVars == <<fault, windowSize>>
sideVars == <<dstDir, window>>

\* ---------------------------------------------------------- byte ranges
\* f.seek(offset); f.read(n): the bytes at offsets offset..offset+n-1 that exist
ReadAt(s, offset, n) == SubSeq(s, offset + 1, Min(offset + n, Len(s)))

\* f.seek(offset); f.write(data) on a file opened without truncation: bytes
\* before offset are kept (a gap past the end reads as zeros), data lands at
\* offset.., bytes after the written range are kept
WriteAt(s, offset, data) ==
  [i \in 1..Max(Len(s), offset + Len(data)) |->
     IF i > offset /\ i <= offset + Len(data) THEN data[i - offset]
     ELSE IF i <= Len(s) THEN s[i] ELSE 0]

\* ---------------------------------------------- _find_resume_position
\* _block_size = min(total_size, self.__block_size)
BlockSizeFor(t, bs) == Min(t, bs)

\* is_block_different(f_src, f_dst, offset)
IsBlockDifferent(s, d, offset, n) == ReadAt(s, offset, n) # ReadAt(d, offset, n)

\* is_file_equal(f_src, f_dst, file_size): returns _mismatch_start or _mismatch_start
IsFileEqual(s, d, fileSize, n) ==
  LET mismatchStart == IsBlockDifferent(s, d, fileSize - n, n)
      mismatchEnd == IsBlockDifferent(s, d, 0, n)
  IN mismatchStart \/ mismatchStart

\* the probe of the search stuck at the lower bound
Mid_AtStart(s, e) == s

\* mid = (start + end) // 2
Mid(s, e) == (s + e) \div 2

\* ------------------------------------------------------ DirectoryCache
\* self._cache.get(destination_file, 0.0)
Lookup(c, f) == IF f \in DOMAIN c THEN c[f] ELSE 0

\* self._cache[destination_file] = _ts
Put(c, f, ts) == [g \in DOMAIN c \cup {f} |-> IF g = f THEN ts ELSE c[g]]

\* _cutoff = datetime.now(tz=pytz.UTC) - timedelta(weeks=self._max_age_in_weeks)
Cutoff == Now - MaxAge

\* serialize_to_file writing every entry
Serialized_NoFilter(c) == c

\* serialize_to_file: the entries with value > _cutoff.timestamp()
Serialized(c) == [g \in {h \in DOMAIN c : c[h] > Cutoff} |-> c[g]]

\* the ledger file is a text: a sequence of tokens, the opening brace, one
\* "key": value pair per entry, the closing brace
TokOpen == <<"open", 0, 0>>
TokClose == <<"close", 0, 0>>
TokPair(k, v) == <<"pair", k, v>>

RECURSIVE DumpKeys(_, _)
DumpKeys(c, S) ==
  IF S = {} THEN <<>>
  ELSE LET k == CHOOSE x \in S : \A y \in S : x <= y
       IN <<TokPair(k, c[k])>> \o DumpKeys(c, S \ {k})

\* json.dump(_data_serialized, file): the text of the map c (the entries in
\* the order of their keys: the order is not observable through json.load)
Dump(c) == <<TokOpen>> \o DumpKeys(c, DOMAIN c) \o <<TokClose>>

\* the text is one complete JSON object
WellFormed(text) ==
  /\ Len(text) >= 2
  /\ text[1] = TokOpen
  /\ text[Len(text)] = TokClose
  /\ \A i \in 2..(Len(text) - 1) : text[i][1] = "pair"

\* deserialize_from_file: json.load(file), and {} when the file is missing or
\* json.load raises (an empty or incomplete text); a repeated key keeps its
\* last value
Load(text) ==
  IF WellFormed(text)
    THEN LET entries == 2..(Len(text) - 1)
             last(k) == CHOOSE i \in entries :
                          /\ text[i][2] = k
                          /\ \A j \in entries : text[j][2] = k => j <= i
         IN [k \in {text[i][2] : i \in entries} |-> text[last(k)][3]]
    ELSE <<>>

\* what open(self._file_name, "w") followed by an interrupted json.dump can
\* leave on storage: the file truncated to nothing, or any part of the text
\* short of its end
TornTexts(text) == {SubSeq(text, 1, k) : k \in 0..(Len(text) - 1)}

\* is_done with pass 1 returning NEW only for an absent destination
IsDone_NewOnlyIfAbsent(c, f, sm, de, dm, m) ==
  LET tsCache == Lookup(c, f)
  IN IF m = "NEW_FILES_ONLY"
       THEN IF tsCache = sm THEN "CACHED" ELSE IF de THEN "DONE" ELSE "NEW"
       ELSE IF de
              THEN IF tsCache = dm THEN "DONE" ELSE "PARTLY"
              ELSE "NEW"

\* is_done with pass 2 testing the source's mtime first
IsDone_CachedFirst(c, f, sm, de, dm, m) ==
  LET tsCache == Lookup(c, f)
  IN IF tsCache = sm THEN "CACHED"
     ELSE IF m = "NEW_FILES_ONLY" THEN "NEW"
     ELSE IF de
            THEN IF tsCache = dm THEN "DONE" ELSE "PARTLY"
            ELSE "NEW"

\* is_done(source_file, destination_file, copy_mode) for destination f, with
\* sm = getmtime(source_file), de = isfile(destination_file),
\* dm = getmtime(destination_file)
IsDone(c, f, sm, de, dm, m) ==
  LET tsCache == Lookup(c, f)
  IN IF m = "NEW_FILES_ONLY"
       THEN IF tsCache = sm THEN "CACHED" ELSE "NEW"
       ELSE IF de
              THEN IF tsCache = dm THEN "DONE" ELSE "PARTLY"
              ELSE "NEW"

\* ------------------------------------------------------- RollingMedian
\* add without the eviction of the oldest value
Add_NoEvict(w, ws, v) == Append(w, v)

\* add(value): append, then popleft if the window exceeds window_size
Add(w, ws, v) ==
  LET a == Append(w, v)
  IN IF Len(a) > ws THEN Tail(a) ELSE a

RECURSIVE Insert(_, _)
Insert(s, v) ==
  IF s = <<>> THEN <<v>>
  ELSE IF v <= Head(s) THEN <<v>> \o s
  ELSE <<Head(s)>> \o Insert(Tail(s), v)

RECURSIVE Sort(_)
Sort(w) == IF w = <<>> THEN <<>> ELSE Insert(Sort(Tail(w)), Head(w))

\* median(): 0 for an empty window, else np.median(self.window): the middle
\* value of the sorted window, the mean of the two middle values for an even
\* count.  The result is given in halves (twice the value), to stay in the
\* integers.
MedianTimes2(w) ==
  IF w = <<>> THEN 0
  ELSE LET s == Sort(w)
           n == Len(s)
       IN IF n % 2 = 1 THEN 2 * s[(n + 1) \div 2]
          ELSE s[n \div 2] + s[n \div 2 + 1]

\* time.time() - start_time of a chunk, in ticks
ElapsedTimes == {1}

\* the values given to add: those of test_RollingMedian
Samples == {10, 20, 30, 40}

\* transfer_rate = copied_size_since_last_progress_shown / elapsed_time
\*                 if elapsed_time > 0 else 0
TransferRate(copied, elapsed) == IF elapsed > 0 THEN copied \div elapsed ELSE 0

\* ------------------------------------------------------------- Copier
\* the operations on a file with os.utime never failing
RaisesAt_UtimeNever(flt, p, m) ==
  \/ flt = "vanished" /\ (p = "cf_size" \/ (p = "classify" /\ m = "NEW_FILES_ONLY"))
  \/ flt = "denied" /\ p \in {"fr_tail", "cf_open"}

\* the operation of position p, in a pass of mode m, raises for a file with
\* fault flt: getmtime(source_file) in is_done (pass 1 only) and getsize(src)
\* raise for a source that is gone; open(src, "rb") raises for a source that
\* cannot be read; os.utime raises for a destination whose times cannot be set
RaisesAt(flt, p, m) ==
  \/ flt = "vanished" /\ (p = "cf_size" \/ (p = "classify" /\ m = "NEW_FILES_ONLY"))
  \/ flt = "denied" /\ p \in {"fr_tail", "cf_open"}
  \/ flt = "utime" /\ p = "sd_utime"

\* copy_file without the return of a dry run
DryRunReturns_Never(d) == FALSE

\* if self.__dry_run: return
DryRunReturns(d) == d

\* the loop over the files without its test of the flag
AbortCheck_Never(a) == FALSE

\* if self.__abort: return  (head of the per-file loop)
AbortCheck(a) == a

\* open(dst, "wb") whatever the resume position
OpenTruncates_Always(r) == TRUE

\* open(dst, "r+b" if resume_position > 0 else "wb"): "wb" truncates
OpenTruncates(r) == ~(r > 0)

\* the streaming loop without its test of the flag
LoopContinues_Always(a) == TRUE

\* while not self.__abort  (head of the streaming loop)
LoopContinues(a) == ~a

\* set_done after the streaming loop without the test of the flag
MarksDoneAfterLoop_Always(a) == TRUE

\* if not self.__abort: set_done(...)  (after the streaming loop)
MarksDoneAfterLoop(a) == ~a

\* ------------------------------------------------------------ history
InStream == {"cf_loop", "cf_read", "cf_write"}

Hist0 == [dstAtCall |-> <<>>, existedAtCall |-> FALSE, cacheAtCall |-> <<>>,
          abortPc |-> "none",
          abortAt |-> <<"none", 0>>, sdCount |-> 0, snapSd |-> 0,
          snapCache |-> <<>>, snapDisk |-> <<>>,
          written |-> [f \in Files |-> 0], calls |-> [f \in Files |-> 0],
          callsWithAbort |-> 0, lateCall |-> <<"none", 0>>,
          seen |-> {}, handed |-> {}, errs |-> {}, crashPc |-> "none",
          marked |-> {}, markedBefore |-> {},
          prevMap |-> <<>>, newMap |-> <<>>, added |-> <<>>,
          probesAfter |-> 0, opensAfter |-> 0, readsAfter |-> 0,
          writesAfter |-> 0]

\* the history of a call of copy_file for file f of pass m, made with the abort
\* flag at a and the destination as it is
Invoked(h, f, m, a, d, de, c) ==
  [h EXCEPT !.dstAtCall = d, !.existedAtCall = de, !.cacheAtCall = c,
            !.calls[f] = @ + 1, !.handed = @ \cup {<<m, f>>},
            !.callsWithAbort = IF a THEN @ + 1 ELSE @,
            !.lateCall = IF a THEN <<m, f>> ELSE @]

\* the history of one more operation of the kind counted in field, when the
\* abort flag is at a
CountAfter(h, a, field) == IF a THEN [h EXCEPT ![field] = @ + 1] ELSE h

\* ------------------------------------------------------------ actions
\* an operation on the file raises.  Under copy of a directory the exception
\* leaves the loop over the files and is caught by the except clause around it:
\* the pass returns, and __copy_directory goes on with pass 2 if this was
\* pass 1.  Under copy of a file nothing catches it.
Except ==
  /\ IF entry = "dir" /\ mode = "NEW_FILES_ONLY"
       THEN mode' = "ALL_FILES" /\ idx' = 1 /\ pc' = "walk"
       ELSE pc' = "done" /\ UNCHANGED <<mode, idx>>
  /\ hist' = [hist EXCEPT !.errs = @ \cup {<<mode, idx>>}]
  /\ UNCHANGED <<fsVars, cfgVars, envVars, sideVars, findVars, disk, cache,
                 abort, status, resume, pos, chunk>>

\* Copier.copy: a source file goes to copy_file, a directory to the two passes
Copy ==
  /\ pc = "copy"
  /\ IF entry = "file"
       THEN /\ pc' = "cf_size"
            /\ hist' = Invoked(hist, idx, mode, abort, dst[idx], dstExists[idx], cache)
       ELSE pc' = "walk" /\ UNCHANGED hist
  /\ UNCHANGED <<fsVars, cfgVars, envVars, sideVars, findVars, disk, cache, abort, mode, idx,
                 status, resume, pos, chunk>>

\* __copy_directory_internal: the head of the loop over the files of the walk;
\* the return on abort ends the pass, and __copy_directory then runs pass 2
Walk ==
  /\ pc = "walk"
  /\ IF idx <= nfiles /\ ~AbortCheck(abort)
       THEN pc' = "classify" /\ UNCHANGED <<mode, idx>>
       ELSE IF mode = "NEW_FILES_ONLY"
              THEN mode' = "ALL_FILES" /\ idx' = 1 /\ pc' = "walk"
              ELSE pc' = "done" /\ UNCHANGED <<mode, idx>>
  /\ UNCHANGED <<fsVars, cfgVars, envVars, sideVars, findVars, disk, cache, abort, status,
                 resume, pos, chunk, hist>>

\* _file_status = self.__directory_cache.is_done(...)
Classify ==
  /\ pc = "classify"
  /\ IF RaisesAt(fault[idx], pc, mode)
       THEN Except
       ELSE /\ status' = IsDone(cache, idx, srcMtime[idx], dstExists[idx],
                                dstMtime[idx], mode)
            /\ pc' = "dispatch"
            /\ hist' = [hist EXCEPT !.seen = @ \cup {<<mode, idx, status'>>}]
            /\ UNCHANGED <<fsVars, cfgVars, envVars, sideVars, findVars, disk,
                           cache, abort, mode, idx, resume, pos, chunk>>

\* the branches on _file_status: CACHED and DONE go on to the next file, NEW and
\* PARTLY call copy_file
Dispatch ==
  /\ pc = "dispatch"
  /\ IF status \in {"NEW", "PARTLY"}
       THEN /\ pc' = "cf_size"
            /\ hist' = Invoked(hist, idx, mode, abort, dst[idx], dstExists[idx], cache)
            /\ UNCHANGED idx
       ELSE pc' = "walk" /\ idx' = idx + 1 /\ UNCHANGED hist
  /\ UNCHANGED <<fsVars, cfgVars, envVars, sideVars, findVars, disk, cache, abort, mode, status,
                 resume, pos, chunk>>

\* copy_file: total_size = getsize(src); the resume search if dst exists
CfSize ==
  /\ pc = "cf_size"
  /\ IF RaisesAt(fault[idx], pc, mode)
       THEN Except
       ELSE /\ total' = Len(src[idx])
            /\ IF dstExists[idx]
                 THEN start' = 0 /\ end' = total' /\ pc' = "fr_tail"
                      /\ UNCHANGED resume
                 ELSE resume' = 0 /\ pc' = "cf_decide" /\ UNCHANGED <<start, end>>
            /\ UNCHANGED <<fsVars, cfgVars, envVars, sideVars, disk, cache,
                           abort, mode, idx, status, pos, chunk, hist>>

\* _find_resume_position: if not is_file_equal(...): the search, else start = -1
\* (open(source_file, "rb") comes first, and raises for an unreadable source)
FrTail ==
  /\ pc = "fr_tail"
  /\ IF RaisesAt(fault[idx], pc, mode)
       THEN Except
       ELSE /\ IF ~IsFileEqual(src[idx], dst[idx], total,
                               BlockSizeFor(total, blockSize))
                 THEN pc' = "fr_loop" /\ UNCHANGED start
                 ELSE start' = -1 /\ pc' = "fr_ret"
            /\ hist' = CountAfter(hist, abort, "probesAfter")
            /\ UNCHANGED <<fsVars, cfgVars, envVars, sideVars, total, end, disk,
                           cache, abort, mode, idx, status, resume, pos, chunk>>

\* one turn of: while start + 1 < end
FrLoop ==
  /\ pc = "fr_loop"
  /\ IF start + 1 < end
       THEN LET mid == Mid(start, end)
            IN /\ IF IsBlockDifferent(src[idx], dst[idx], mid,
                                      BlockSizeFor(total, blockSize))
                    THEN end' = mid /\ UNCHANGED start
                    ELSE start' = mid /\ UNCHANGED end
               /\ pc' = "fr_loop"
               /\ hist' = CountAfter(hist, abort, "probesAfter")
       ELSE pc' = "fr_ret" /\ UNCHANGED <<start, end, hist>>
  /\ UNCHANGED <<fsVars, cfgVars, envVars, sideVars, total, disk, cache, abort, mode, idx,
                 status, resume, pos, chunk>>

\* return start
FrRet ==
  /\ pc = "fr_ret"
  /\ IF entry = "find"
       THEN pc' = "done" /\ UNCHANGED resume
       ELSE resume' = start /\ pc' = "cf_decide"
  /\ UNCHANGED <<fsVars, cfgVars, envVars, sideVars, findVars, disk, cache, abort, mode, idx,
                 status, pos, chunk, hist>>

\* copy_file after the resume position is known: "Files are equal", dry run, or copy
CfDecide ==
  /\ pc = "cf_decide"
  /\ pc' = IF resume < 0 THEN "sd_utime"
           ELSE IF DryRunReturns(dryRun) THEN "cf_ret" ELSE "cf_mkdir"
  /\ UNCHANGED <<fsVars, cfgVars, envVars, sideVars, findVars, disk, cache, abort, mode, idx,
                 status, resume, pos, chunk, hist>>

\* if not os.path.exists(destination_dir): os.makedirs(destination_dir)
CfMkdir ==
  /\ pc = "cf_mkdir"
  /\ dstDir' = TRUE
  /\ pc' = "cf_open"
  /\ UNCHANGED <<fsVars, cfgVars, envVars, window, findVars, disk, cache, abort,
                 mode, idx, status, resume, pos, chunk, hist>>

\* open(src, "rb"), open(dst, "r+b" if resume_position > 0 else "wb"), the
\* seeks; open(src, "rb") comes first, and raises for an unreadable source
CfOpen ==
  /\ pc = "cf_open"
  /\ IF RaisesAt(fault[idx], pc, mode)
       THEN Except
       ELSE /\ IF OpenTruncates(resume)
                 THEN /\ dst' = [dst EXCEPT ![idx] = <<>>]
                      /\ dstMtime' = [dstMtime EXCEPT ![idx] = Now]
                 ELSE UNCHANGED <<dst, dstMtime>>
            /\ dstExists' = [dstExists EXCEPT ![idx] = TRUE]
            /\ pos' = resume
            /\ pc' = "cf_loop"
            /\ hist' = CountAfter(hist, abort, "opensAfter")
            /\ UNCHANGED <<src, srcMtime, cfgVars, envVars, sideVars, findVars,
                           disk, cache, abort, mode, idx, status, resume, chunk>>

\* while not self.__abort
CfLoop ==
  /\ pc = "cf_loop"
  /\ pc' = IF LoopContinues(abort) THEN "cf_read" ELSE "cf_final"
  /\ UNCHANGED <<fsVars, cfgVars, envVars, sideVars, findVars, disk, cache, abort, mode, idx,
                 status, resume, pos, chunk, hist>>

\* chunk = f_src.read(...); if not chunk: break
CfRead ==
  /\ pc = "cf_read"
  /\ chunk' = ReadAt(src[idx], pos, ChunkSize)
  /\ pc' = IF chunk' = <<>> THEN "cf_final" ELSE "cf_write"
  /\ hist' = IF chunk' = <<>> THEN hist ELSE CountAfter(hist, abort, "readsAfter")
  /\ UNCHANGED <<fsVars, cfgVars, envVars, sideVars, findVars, disk, cache, abort, mode, idx,
                 status, resume, pos>>

\* f_dst.write(chunk); copied_size += len(chunk); then, if the percentage has
\* changed (with files this small every chunk changes it) and not
\* self.__abort: self.__transfer_rate_median.add(transfer_rate)
CfWrite ==
  /\ pc = "cf_write"
  /\ dst' = [dst EXCEPT ![idx] = WriteAt(@, pos, chunk)]
  /\ dstMtime' = [dstMtime EXCEPT ![idx] = Now]
  /\ pos' = pos + Len(chunk)
  /\ \E elapsed \in ElapsedTimes :
       LET rate == TransferRate(Len(chunk), elapsed)
           h == CountAfter(hist, abort, "writesAfter")
       IN IF abort
            THEN /\ window' = window
                 /\ hist' = [h EXCEPT !.written[idx] = @ + Len(chunk)]
            ELSE /\ window' = Add(window, windowSize, rate)
                 /\ hist' = [h EXCEPT !.written[idx] = @ + Len(chunk),
                                      !.added = Append(@, rate)]
  /\ pc' = "cf_loop"
  /\ UNCHANGED <<src, srcMtime, dstExists, cfgVars, envVars, dstDir, findVars,
                 disk, cache, abort, mode, idx, status, resume, chunk>>

\* after the with block: if not self.__abort: set_done(...)
CfFinal ==
  /\ pc = "cf_final"
  /\ pc' = IF MarksDoneAfterLoop(abort) THEN "sd_utime" ELSE "cf_ret"
  /\ UNCHANGED <<fsVars, cfgVars, envVars, sideVars, findVars, disk, cache, abort, mode, idx,
                 status, resume, pos, chunk, hist>>

\* set_done: _ts = getmtime(source_file); os.utime(destination_file, (_ts, _ts))
SdUtime ==
  /\ pc = "sd_utime"
  /\ IF RaisesAt(fault[idx], pc, mode)
       THEN Except
       ELSE /\ dstMtime' = [dstMtime EXCEPT ![idx] = srcMtime[idx]]
            /\ hist' = [hist EXCEPT !.sdCount = @ + 1]
            /\ pc' = "sd_cache"
            /\ UNCHANGED <<src, srcMtime, dstExists, dst, cfgVars, envVars,
                           sideVars, findVars, disk, cache, abort, mode, idx,
                           status, resume, pos, chunk>>

\* set_done: self._cache[destination_file] = _ts
SdCache ==
  /\ pc = "sd_cache"
  /\ cache' = Put(cache, idx, srcMtime[idx])
  /\ pc' = "sd_persist"
  /\ UNCHANGED <<fsVars, cfgVars, envVars, sideVars, findVars, disk, abort, mode, idx, status,
                 resume, pos, chunk, hist>>

\* set_done: self.serialize_to_file()
SdPersist ==
  /\ pc = "sd_persist"
  /\ disk' = Dump(Serialized(cache))
  /\ pc' = "cf_ret"
  /\ hist' = [hist EXCEPT !.marked = @ \cup {idx}]
  /\ UNCHANGED <<fsVars, cfgVars, envVars, sideVars, findVars, cache, abort, mode, idx, status,
                 resume, pos, chunk>>

\* copy_file returns: to Copier.copy, or to the loop over the files
CfRet ==
  /\ pc = "cf_ret"
  /\ IF entry = "file"
       THEN pc' = "done" /\ UNCHANGED idx
       ELSE pc' = "walk" /\ idx' = idx + 1
  /\ UNCHANGED <<fsVars, cfgVars, envVars, sideVars, findVars, disk, cache, abort, mode, status,
                 resume, pos, chunk, hist>>

\* signal_handler: self.__abort = True, between any two steps of the thread
SignalHandler ==
  /\ pc # "done"
  /\ ~abort
  /\ abort' = TRUE
  /\ hist' = [hist EXCEPT !.abortPc = pc, !.abortAt = <<mode, idx>>,
                          !.snapSd = hist.sdCount, !.snapCache = cache,
                          !.snapDisk = disk]
  /\ UNCHANGED <<fsVars, cfgVars, envVars, sideVars, findVars, disk, cache, mode, idx, pc, status,
                 resume, pos, chunk>>

\* the process dies (killed, power lost) at any point of the run.  Inside
\* serialize_to_file the ledger file has been opened "w" and is written in
\* place, so what is left on storage is the old text (not yet opened), or the
\* new text cut anywhere before its end.
Crash ==
  /\ pc \notin {"done", "crashed"}
  /\ pc' = "crashed"
  /\ disk' \in IF pc = "sd_persist"
                 THEN {disk} \cup TornTexts(Dump(Serialized(cache)))
                 ELSE {disk}
  /\ hist' = [hist EXCEPT !.crashPc = pc, !.prevMap = Load(disk),
                          !.newMap = Serialized(cache)]
  /\ UNCHANGED <<fsVars, cfgVars, envVars, sideVars, findVars, cache, abort,
                 mode, idx, status, resume, pos, chunk>>

\* a second process on the same tree: Copier() makes a new RollingMedian and a
\* new DirectoryCache, which loads the ledger from storage
Restart ==
  /\ pc \in {"done", "crashed"}
  /\ entry = "dir"
  /\ run = 1
  /\ run' = 2
  /\ cache' = Load(disk)
  /\ window' = <<>>
  /\ abort' = FALSE
  /\ mode' = "NEW_FILES_ONLY"
  /\ idx' = 1
  /\ pc' = "copy"
  /\ hist' = [Hist0 EXCEPT !.markedBefore = hist.marked]
  /\ UNCHANGED <<fsVars, dryRun, blockSize, entry, nfiles, envVars, dstDir,
                 findVars, disk, status, resume, pos, chunk>>

\* RollingMedian.add(value), called on its own
RollingMedianAdd ==
  /\ pc = "rm"
  /\ Len(hist.added) < MaxAdds
  /\ \E v \in Samples :
       /\ window' = Add(window, windowSize, v)
       /\ hist' = [hist EXCEPT !.added = Append(@, v)]
  /\ UNCHANGED <<fsVars, cfgVars, envVars, dstDir, findVars, disk, cache, abort,
                 mode, idx, pc, status, resume, pos, chunk>>

\* ------------------------------------------------------ initial states
\* a file the walk does not yield
NoFile == [s |-> <<>>, sm |-> 0, de |-> FALSE, d |-> <<>>, dm |-> 0]

\* a source file with content s and a destination that is absent, or present
\* with a content of ds and a modification time of dms
FileStates(ss, sms, ds, dms) ==
  {[s |-> s, sm |-> sm, de |-> FALSE, d |-> <<>>, dm |-> 0] : s \in ss, sm \in sms}
  \cup [s : ss, sm : sms, de : {TRUE}, d : ds, dm : dms]

\* the ledgers a file on storage can hold for the destinations in fs
Ledgers(fs, ts) == UNION {[S -> ts] : S \in SUBSET fs}

InitState(fst, led, bs, dry, ent, n, p, tot) ==
  /\ src = [f \in Files |-> fst[f].s]
  /\ srcMtime = [f \in Files |-> fst[f].sm]
  /\ dstExists = [f \in Files |-> fst[f].de]
  /\ dst = [f \in Files |-> fst[f].d]
  /\ dstMtime = [f \in Files |-> fst[f].dm]
  /\ disk = Dump(led)
  /\ cache = Load(Dump(led))
  /\ abort = FALSE
  /\ dryRun = dry
  /\ blockSize = bs
  /\ entry = ent
  /\ nfiles = n
  /\ run = 1
  /\ mode = "NEW_FILES_ONLY"
  /\ idx = 1
  /\ pc = p
  /\ status = "NEW"
  /\ total = tot
  /\ start = 0
  /\ end = tot
  /\ resume = 0
  /\ pos = 0
  /\ chunk = <<>>
  /\ dstDir \in IF \E f \in Files : fst[f].de THEN {TRUE} ELSE BOOLEAN
  /\ window = <<>>
  /\ hist = Hist0

\* the environment of a run: the faults of the files, and the window size of
\* the RollingMedian
InitEnv(flt, ws) ==
  /\ fault = flt
  /\ windowSize = ws

NoFaults == [f \in Files |-> "none"]

\* the files of test_find_resume_position: bytes_good equal bytes, then differing ones
TestPair(g) ==
  [s |-> Ones(TestLen), sm |-> 0, de |-> TRUE,
   d |-> [i \in 1..TestLen |-> IF i <= g THEN 1 ELSE 0], dm |-> 0]

\* a call of _find_resume_position on two existing files
InitFind ==
  /\ InitEnv(NoFaults, DefaultWindow)
  /\ \/ \E s \in SeqsUpTo(MaxLen), d \in SeqsUpTo(MaxLen), tot \in 0..MaxLen,
           bs \in 1..MaxBlock :
          InitState([f \in Files |-> IF f = 1
                       THEN [s |-> s, sm |-> 0, de |-> TRUE, d |-> d, dm |-> 0]
                       ELSE NoFile],
                    <<>>, bs, FALSE, "find", 1, "fr_tail", tot)
     \/ \E g \in 0..TestLen :
          InitState([f \in Files |-> IF f = 1 THEN TestPair(g) ELSE NoFile],
                    <<>>, TestBlock, FALSE, "find", 1, "fr_tail", TestLen)

\* Copier(block_size, dry_run).copy(src, dst) on one source file
InitCopy ==
  /\ InitEnv(NoFaults, DefaultWindow)
  /\ \E f1 \in FileStates(SeqsUpTo(MaxLen), {Now}, SeqsUpTo(MaxLen), {0}),
        bs \in 1..MaxBlock, dry \in BOOLEAN :
        InitState([f \in Files |-> IF f = 1 THEN f1 ELSE NoFile],
                  <<>>, bs, dry, "file", 1, "copy", 0)

\* the content of the source files of a tree: one byte more than a chunk, so
\* that a full copy takes two writes
TreeSrc == Ones(ChunkSize + 1)

\* the destination contents of a tree: every prefix of the source (an
\* interrupted copy), and a full-length file whose first byte differs
TreeDsts ==
  {SubSeq(TreeSrc, 1, k) : k \in 0..Len(TreeSrc)}
  \cup {[i \in 1..Len(TreeSrc) |-> IF i = 1 THEN 0 ELSE 1]}

\* Copier(block_size, dry_run).copy(src, dst) on a source directory: a tree of
\* one file in any state, or a tree of two files whose destinations, where
\* they exist, were last written by a run that was interrupted
InitDir ==
  /\ InitEnv(NoFaults, DefaultWindow)
  /\ \/ \E f1 \in FileStates({TreeSrc}, Times, TreeDsts, Times),
           led \in Ledgers({1}, Times \ {0}), bs \in 1..MaxBlock, dry \in BOOLEAN :
          InitState([f \in Files |-> IF f = 1 THEN f1 ELSE NoFile],
                    led, bs, dry, "dir", 1, "copy", 0)
     \/ \E f1 \in FileStates({TreeSrc}, Times, TreeDsts, {Now}),
           f2 \in FileStates({TreeSrc}, Times, TreeDsts, {Now}),
           led \in Ledgers({1, 2}, Times \ {0}) :
          InitState([f \in Files |-> IF f = 1 THEN f1 ELSE f2],
                    led, MaxBlock, FALSE, "dir", 2, "copy", 0)

\* the time of an earlier run
Earlier == Now - 1

\* a directory of two files whose destinations, where they exist, were last
\* written by an earlier run, with a fault on any of the files
InitFault ==
  \E f1 \in FileStates({TreeSrc}, {Now}, TreeDsts, {Earlier}),
     f2 \in FileStates({TreeSrc}, {Now}, TreeDsts, {Earlier}),
     led \in Ledgers({1, 2}, {Now}), flt \in [Files -> FaultKinds] :
     /\ InitEnv(flt, DefaultWindow)
     /\ InitState([f \in Files |-> IF f = 1 THEN f1 ELSE f2],
                  led, MaxBlock, FALSE, "dir", 2, "copy", 0)

\* the end-to-end scenario: a directory with file 1 (A), whose destination
\* holds the same bytes, and file 2 (B), whose destination holds only the
\* first bytes; no ledger.  The modification times and the block size vary.
InitScenario ==
  \E sm1 \in Times \ {0}, sm2 \in Times \ {0}, dm1 \in Times, dm2 \in Times,
     bs \in 1..MaxBlock :
     /\ InitEnv(NoFaults, DefaultWindow)
     /\ InitState([f \in Files |->
                    [s |-> Ones(ScenarioLen),
                     sm |-> IF f = 1 THEN sm1 ELSE sm2,
                     de |-> TRUE,
                     d |-> IF f = 1 THEN Ones(ScenarioLen) ELSE Ones(ScenarioKept),
                     dm |-> IF f = 1 THEN dm1 ELSE dm2]],
                  <<>>, bs, FALSE, "dir", 2, "copy", 0)

\* a RollingMedian(window_size) before its first add
InitMedian ==
  \E ws \in 1..MaxWindow :
     /\ InitEnv(NoFaults, ws)
     /\ InitState([f \in Files |-> NoFile], <<>>, 1, FALSE, "median", 0, "rm", 0)

NextFind == FrTail \/ FrLoop \/ FrRet

NextFile ==
  \/ Copy \/ CfSize \/ FrTail \/ FrLoop \/ FrRet \/ CfDecide \/ CfMkdir \/ CfOpen
  \/ CfLoop \/ CfRead \/ CfWrite \/ CfFinal \/ SdUtime \/ SdCache \/ SdPersist
  \/ CfRet \/ SignalHandler

NextRun ==
  \/ Copy \/ Walk \/ Classify \/ Dispatch \/ CfSize \/ FrTail \/ FrLoop
  \/ FrRet \/ CfDecide \/ CfMkdir \/ CfOpen \/ CfLoop \/ CfRead \/ CfWrite \/ CfFinal
  \/ SdUtime \/ SdCache \/ SdPersist \/ CfRet

NextDir == NextRun \/ SignalHandler

NextTwice == NextRun \/ Restart

NextFault == NextRun \/ Crash \/ Restart

NextMedian == RollingMedianAdd

Spec == InitDir /\ [][NextDir]_vars
SpecTwice == InitDir /\ [][NextTwice]_vars
SpecFind == InitFind /\ [][NextFind]_vars
SpecCopy == InitCopy /\ [][NextFile]_vars
SpecFault == InitFault /\ [][NextFault]_vars
SpecMedian == InitMedian /\ [][NextMedian]_vars
SpecScenario == InitScenario /\ [][NextRun]_vars

\* _find_resume_position runs on one thread that nothing suspends for ever
SpecFindLive == SpecFind /\ WF_vars(NextFind)

\* ====================================================== the claims
IsPrefix(d, s) == Len(d) <= Len(s) /\ SubSeq(s, 1, Len(d)) = d

\* C1: resume correctness: when the destination holds exactly the first p
\* bytes of the source (0 <= p <= L), a copy_file that runs to completion, not
\* a dry run and never aborted, leaves the destination byte-identical to the
\* source.
C1_ResumeCorrect ==
  (/\ entry = "file" /\ pc = "done" /\ ~dryRun /\ ~abort
   /\ hist.existedAtCall /\ IsPrefix(hist.dstAtCall, src[1]))
  => dstExists[1] /\ dst[1] = src[1]

\* C2: when source and destination hold identical bytes of length L (L = 0
\* included), for every block size, _find_resume_position returns -1.
C2_EqualGivesMinusOne ==
  (entry = "find" /\ pc = "done" /\ dst[1] = src[1] /\ total = Len(src[1]))
  => start = -1

\* the results test_find_resume_position expects for bytes_good = 0..10
TestExpected == <<0, 0, 0, 1, 2, 3, 4, 5, 6, 7, -1>>

\* C3: with total length 10 and block size 2, for files that agree on exactly
\* the first g bytes and differ on the other 10 - g, _find_resume_position
\* returns 0, 0, 0, 1, 2, 3, 4, 5, 6, 7 for g = 0..9 and -1 for g = 10.
C3_TestTable ==
  \A g \in 0..TestLen :
    (/\ entry = "find" /\ pc = "done" /\ total = TestLen /\ blockSize = TestBlock
     /\ src[1] = TestPair(g).s /\ dst[1] = TestPair(g).d)
    => start = TestExpected[g + 1]

\* C4: ledger invariant: set_done is called, from the "Files are equal" path or
\* from the end-of-stream path of copy_file, only when the full content of the
\* destination equals the full content of the source at that moment.
C4_DoneOnlyWhenEqual ==
  pc = "sd_utime" => dstExists[idx] /\ dst[idx] = src[idx]

\* C5: idempotence: after one full uncancelled two-pass synchronization, a
\* second one on the unchanged tree, with the ledger reloaded from storage,
\* writes no byte to any destination and classifies every file Cached or Done.
C5_SecondRunIdle ==
  (run = 2 /\ ~dryRun)
  => /\ \A f \in Files : hist.written[f] = 0
     /\ pc = "dispatch" => status \in {"CACHED", "DONE"}

\* the ledger holds a record for destination f, and it equals t
HasRecord(c, f, t) == f \in DOMAIN c /\ c[f] = t

CopyFilePcs ==
  {"cf_size", "fr_tail", "fr_loop", "fr_ret", "cf_decide", "cf_mkdir", "cf_open", "cf_loop",
   "cf_read", "cf_write", "cf_final", "sd_utime", "sd_cache", "sd_persist",
   "cf_ret"}

\* C6, as stated: in pass 1 a file is Cached if the ledger record of its
\* destination equals the source's mtime; otherwise it is New only if the
\* destination does not exist; a file whose destination exists and is not
\* cached is skipped: copy_file is not called for it before pass 2.
C6_Original ==
  mode = "NEW_FILES_ONLY" =>
    /\ pc = "dispatch" =>
         /\ status = "CACHED" <=> Lookup(cache, idx) = srcMtime[idx]
         /\ status = "NEW" => ~dstExists[idx]
    /\ pc \in CopyFilePcs => ~hist.existedAtCall

\* C6, amended: in pass 1 a file is Cached if the ledger lookup for its
\* destination (0.0 when there is no record) equals the source's mtime, and New
\* otherwise, whether or not the destination exists; copy_file is called in
\* pass 1 for every file that is not Cached.
C6_PassOneState ==
  mode = "NEW_FILES_ONLY" =>
    /\ pc = "dispatch" =>
         status = IF Lookup(cache, idx) = srcMtime[idx] THEN "CACHED" ELSE "NEW"
    /\ pc \in CopyFilePcs => Lookup(hist.cacheAtCall, idx) # srcMtime[idx]

C6_PassOneStep ==
  (mode = "NEW_FILES_ONLY" /\ pc = "dispatch" /\ pc' # pc)
  => pc' = IF Lookup(cache, idx) = srcMtime[idx] THEN "walk" ELSE "cf_size"

C6_Amended == []C6_PassOneState /\ [][C6_PassOneStep]_vars

\* C6 witness: pass 1 is inside the resume search of copy_file for a file whose
\* destination exists and has no record equal to the source's mtime
C6_Witness ==
  /\ mode = "NEW_FILES_ONLY" /\ pc = "fr_loop" /\ dstExists[idx]
  /\ hist.existedAtCall /\ ~HasRecord(cache, idx, srcMtime[idx])

\* C7, as stated: the classification of pass 2 is, for every combination of
\* ledger record, source mtime, destination existence and destination mtime:
\* Cached if the ledger record equals the source's mtime (skip); else New if the
\* destination does not exist; else Done if the destination's mtime equals the
\* ledger record; else PartiallyCopied.  Stated for the files the ledger holds a
\* record for.
C7_Original ==
  (mode = "ALL_FILES" /\ pc = "dispatch" /\ idx \in DOMAIN cache) =>
    status = IF Lookup(cache, idx) = srcMtime[idx] THEN "CACHED"
             ELSE IF ~dstExists[idx] THEN "NEW"
             ELSE IF Lookup(cache, idx) = dstMtime[idx] THEN "DONE"
             ELSE "PARTLY"

\* C7, amended: pass 2 never classifies a file Cached and does not read the
\* source's mtime: a file is New if its destination does not exist; else Done
\* if the destination's mtime equals the ledger lookup for it (0.0 when there
\* is no record); else PartiallyCopied.  Done is skipped, New and
\* PartiallyCopied are handed to copy_file.
C7_PassTwoState ==
  (mode = "ALL_FILES" /\ pc = "dispatch") =>
    status = IF ~dstExists[idx] THEN "NEW"
             ELSE IF Lookup(cache, idx) = dstMtime[idx] THEN "DONE"
             ELSE "PARTLY"

C7_PassTwoStep ==
  (mode = "ALL_FILES" /\ pc = "dispatch" /\ pc' # pc)
  => pc' = IF dstExists[idx] /\ Lookup(cache, idx) = dstMtime[idx]
             THEN "walk" ELSE "cf_size"

C7_Amended == []C7_PassTwoState /\ [][C7_PassTwoStep]_vars

\* C7 witness: pass 2 hands to copy_file, as PartiallyCopied, a file whose
\* ledger record equals the source's mtime
C7_Witness ==
  /\ mode = "ALL_FILES" /\ pc = "cf_size" /\ status = "PARTLY"
  /\ HasRecord(cache, idx, srcMtime[idx])

\* C8: if the abort flag becomes set during the streaming loop of copy_file,
\* before the end of the source was read, copy_file never calls set_done for
\* that file: no ledger record is written, in memory or on storage, and the
\* destination's mtime is not stamped, whatever the interleaving.
C8_NoDoneAfterAbort ==
  hist.abortPc \in InStream =>
    /\ pc \notin {"sd_utime", "sd_cache", "sd_persist"}
    /\ hist.sdCount = hist.snapSd
    /\ cache = hist.snapCache
    /\ disk = hist.snapDisk

\* C8 witness: the run has stopped after an abort that arrived in the streaming
\* loop between two chunks, with the destination partly written
C8_Witness ==
  /\ pc = "done" /\ hist.abortPc \in InStream /\ nfiles = 2
  /\ hist.written[1] > 0 /\ dst[1] # src[1] /\ hist.sdCount = 0

\* the bytes of the destination that matched the source before the call are
\* still there
MatchedKept(before, now, s) ==
  \A i \in 1..Len(before) :
    (i <= Len(s) /\ before[i] = s[i]) => (i <= Len(now) /\ now[i] = s[i])

\* ... and the destination is not shorter than before the call
Preserved(before, now, s) ==
  Len(now) >= Len(before) /\ MatchedKept(before, now, s)

\* the positions of copy_file at which resume_position is known
ResumeKnown == CopyFilePcs \ {"cf_size", "fr_tail", "fr_loop", "fr_ret"}

\* C9, as stated: whenever the abort flag is set, also before copy_file opens
\* the destination, the bytes of the destination that matched the source before
\* the call are still present when the run has stopped.  (The claim adds that
\* the destination is never shortened, which fails in the same runs.)
C9_Original ==
  (abort /\ pc = "done" /\ hist.existedAtCall)
  => MatchedKept(hist.dstAtCall, dst[1], src[1])

\* C9, amended: a cancelled copy_file that resumes (resume_position > 0, "r+b"),
\* finds the files equal (resume_position = -1) or is a dry run keeps every byte
\* of the destination that matched the source before the call and never
\* shortens it, at every moment of the call and after it; with
\* resume_position = 0 the destination is opened "wb" and emptied, also when
\* the abort flag is already set.
C9_Amended ==
  (/\ abort /\ pc \in CopyFilePcs \cup {"done"} /\ hist.existedAtCall
   /\ ~(pc \in ResumeKnown \cup {"done"} /\ resume = 0 /\ ~dryRun))
  => Preserved(hist.dstAtCall, dst[1], src[1])

\* C9 witness: an abort stopped a resumed copy after it had written a chunk at
\* its resume position and before it had written up to the end of the source
C9_Witness ==
  /\ abort /\ pc = "done" /\ hist.existedAtCall /\ resume > 0
  /\ hist.written[1] > 0 /\ pos < total /\ hist.sdCount = 0

\* C10, as stated: once the abort flag is set, after the copy_file in flight
\* has returned, copy_file is not called for any further file, in the rest of
\* pass 1 or in pass 2.
C10_Original == hist.callsWithAbort = 0

\* C10, amended: once the abort flag is set, copy_file is called for no file
\* whose loop-head check of the flag comes after: the only call that can still
\* be made is for the file that had passed its check and was being classified
\* when the flag was set, so at most one call starts with the flag set, in
\* pass 1 or pass 2.
C10_Amended ==
  hist.callsWithAbort > 0 =>
    /\ hist.callsWithAbort = 1
    /\ hist.abortPc \in {"classify", "dispatch"}
    /\ hist.lateCall = hist.abortAt

\* C10 witness: the flag was set while file 1 was being classified in pass 1;
\* the run has stopped after one call for file 1 and none for file 2, whose
\* destination still does not exist
C10_Witness ==
  /\ pc = "done" /\ nfiles = 2 /\ hist.callsWithAbort = 1
  /\ hist.abortAt = <<"NEW_FILES_ONLY", 1>>
  /\ hist.calls[2] = 0 /\ ~dstExists[2]

\* C11: per-file error isolation: if classifying or copying one file raises an
\* error (source vanished, permission denied), the error is caught and every
\* remaining file of the same pass is still classified and, when New or
\* PartiallyCopied, copied.  Stated of a run of the two passes that has ended:
\* every file of every pass either raised itself, or was classified and, when
\* New or PartiallyCopied, handed to copy_file.
C11_ErrorIsolated ==
  (entry = "dir" /\ pc = "done") =>
    \A m \in Modes, f \in 1..nfiles :
      \/ <<m, f>> \in hist.errs
      \/ \E s \in {"NEW", "CACHED", "PARTLY", "DONE"} :
           /\ <<m, f, s>> \in hist.seen
           /\ s \in {"NEW", "PARTLY"} => <<m, f>> \in hist.handed

\* C12: end-to-end scenario: files A (10 bytes, destination identical) and B
\* (10 bytes, destination holding only the first 4 bytes), empty ledger: after
\* synchronize, zero bytes were written for A, exactly 6 bytes (offsets 4..10)
\* for B, both destinations equal their sources, and the ledger holds a record
\* for each destination equal to its source mtime.
C12_Scenario ==
  (entry = "dir" /\ pc = "done") =>
    /\ hist.written[1] = 0
    /\ hist.written[2] = ScenarioLen - ScenarioKept
    /\ \A f \in Files :
         /\ dstExists[f] /\ dst[f] = src[f]
         /\ HasRecord(cache, f, srcMtime[f])

\* C13: dry-run frame: with dry_run set, for any sequence of copy / copy_file
\* calls and any destination state, no step creates, truncates or writes a
\* destination file, and no step creates a directory.
C13_DryRunFrame ==
  [][dryRun => (dst' = dst /\ dstExists' = dstExists /\ dstDir' = dstDir)]_vars

\* C13 witness: a dry run has ended after copy_file was called in both passes
\* for a file whose destination and destination directory do not exist; they
\* still do not exist
C13_Witness ==
  /\ dryRun /\ entry = "dir" /\ pc = "done" /\ hist.calls[1] = 2
  /\ ~dstExists[1] /\ ~dstDir

\* the entries of the map c whose timestamp is newer than now minus the
\* retention window
InWindow(c) == [k \in {x \in DOMAIN c : c[x] > Now - MaxAge} |-> c[k]]

\* C14: ledger round-trip: persisting the in-memory ledger and then loading it
\* in a fresh DirectoryCache yields exactly the in-memory entries whose
\* timestamp is newer than now minus the retention window; in particular after
\* set_done(src, dst) with an in-window source mtime, a freshly constructed
\* ledger classifies (src, dst) as Cached in NewFilesOnly mode: what is loaded
\* from storage after a persist, what the second process holds when it starts,
\* and what its pass 1 answers.
C14_RoundTrip ==
  /\ (hist.marked # {} /\ pc # "sd_persist") => Load(disk) = InWindow(cache)
  /\ (run = 2 /\ pc = "copy" /\ hist.markedBefore # {}) => cache = Load(disk)
  /\ \A f \in hist.marked :
       srcMtime[f] > Now - MaxAge =>
         IsDone(Load(disk), f, srcMtime[f], dstExists[f], dstMtime[f],
                "NEW_FILES_ONLY") = "CACHED"
  /\ (/\ run = 2 /\ mode = "NEW_FILES_ONLY" /\ pc = "dispatch"
      /\ idx \in hist.markedBefore /\ srcMtime[idx] > Now - MaxAge)
     => status = "CACHED"

\* C14 witness: the second process, its ledger loaded from storage, has
\* classified file 2 Cached in pass 1: file 2 was marked done by the first
\* process with an in-window mtime.  File 1 was marked done too, with an mtime
\* outside the window, and the loaded ledger has no record for it.
C14_Witness ==
  /\ run = 2 /\ mode = "NEW_FILES_ONLY" /\ pc = "dispatch" /\ idx = 2
  /\ hist.markedBefore = {1, 2} /\ srcMtime[2] > Now - MaxAge
  /\ status = "CACHED" /\ 1 \notin DOMAIN cache

\* the j-th smallest value of the sequence w, counted with repetitions
OrderStat(w, j) ==
  CHOOSE x \in {w[i] : i \in 1..Len(w)} :
    /\ Cardinality({i \in 1..Len(w) : w[i] < x}) < j
    /\ j <= Cardinality({i \in 1..Len(w) : w[i] <= x})

\* the samples of test_RollingMedian and twice the medians it expects, before
\* the first add and after each add
TestSamples == <<10, 20, 30, 40>>
TestMediansTimes2 == <<0, 20, 30, 40, 60>>

\* C15: RollingMedian: after any sequence of add calls the window holds
\* exactly the last min(n, window_size) samples in insertion order (FIFO
\* eviction, length never above window_size) and median() returns their
\* median (the mean of the two middle values for an even count), 0 for an
\* empty window; window size 3 with samples 10, 20, 30, 40 gives 10, 15, 20,
\* 30.  Medians are compared in halves.
C15_RollingMedian ==
  LET n == Len(hist.added)
      k == Min(n, windowSize)
  IN /\ Len(window) <= windowSize
     /\ window = SubSeq(hist.added, n - k + 1, n)
     /\ MedianTimes2(window) =
          IF k = 0 THEN 0
          ELSE OrderStat(window, (k + 1) \div 2) + OrderStat(window, k \div 2 + 1)
     /\ (/\ windowSize = TestWindow /\ n <= Len(TestSamples)
         /\ hist.added = SubSeq(TestSamples, 1, n))
        => MedianTimes2(window) = TestMediansTimes2[n + 1]

\* C15 witness: a window of size 3 after the adds of 10, 20, 30, 40: the 10
\* was evicted, and the median is 30
C15_Witness ==
  /\ entry = "median" /\ windowSize = TestWindow /\ hist.added = TestSamples
  /\ window = <<20, 30, 40>> /\ MedianTimes2(window) = 2 * 30

\* C16: crash atomicity of persist: if the process dies at any point during
\* serialize_to_file, the next load (deserialize_from_file) returns either the
\* complete previously persisted map or the complete new map, never an empty
\* or partial map caused by a half-written file.
C16_PersistAtomic ==
  (pc = "crashed" /\ hist.crashPc = "sd_persist")
  => Load(disk) \in {hist.prevMap, hist.newMap}

\* the ledger, in memory and on storage, is as it was when the flag was set
LedgerAsAtAbort == cache = hist.snapCache /\ disk = hist.snapDisk

\* the positions at which the flag, once set, is tested before anything else
\* is done for a file
BeforeCheck == {"copy", "walk", "cf_final", "cf_ret"}

\* C17, as stated: bounded cancellation latency: from whatever point of a run
\* the abort flag is set (classification, resume search, or streaming), at
\* most one more chunk is read and written afterwards, and no other
\* destination or ledger write occurs.
C17_Original ==
  abort =>
    /\ hist.readsAfter <= 1 /\ hist.writesAfter <= 1
    /\ hist.opensAfter = 0
    /\ hist.sdCount = hist.snapSd
    /\ LedgerAsAtAbort

\* C17, amended: once the flag is set, at most one more chunk is read and
\* written, and only when the flag was set inside the streaming loop, where
\* nothing else is written.  When it was set earlier in the call, or while the
\* file was being classified, the call (the only one still made) runs its
\* resume search to the end and then either marks the file done (destination
\* stamped, ledger written) or opens the destination (creating or emptying it
\* at resume_position 0), never both, and copies no chunk.  When it was set
\* inside set_done, set_done completes.  The records of the other files do not
\* change.
C17_Amended ==
  abort =>
    /\ hist.readsAfter <= 1 /\ hist.writesAfter <= 1
    /\ hist.callsWithAbort <= 1
    /\ hist.opensAfter + (hist.sdCount - hist.snapSd) <= 1
    /\ hist.abortPc \in InStream =>
         /\ hist.opensAfter = 0 /\ hist.probesAfter = 0
         /\ hist.sdCount = hist.snapSd /\ LedgerAsAtAbort
    /\ hist.abortPc \notin InStream =>
         hist.readsAfter = 0 /\ hist.writesAfter = 0
    /\ hist.abortPc \in BeforeCheck =>
         /\ hist.opensAfter = 0 /\ hist.probesAfter = 0
         /\ hist.sdCount = hist.snapSd /\ LedgerAsAtAbort
    /\ \A f \in Files \ {hist.abortAt[2]} :
         /\ f \in DOMAIN cache <=> f \in DOMAIN hist.snapCache
         /\ Lookup(cache, f) = Lookup(hist.snapCache, f)

\* C17 witness: the flag was set while a file was being classified; the run
\* has stopped after the call for that file compared the trailing blocks,
\* stamped the destination and wrote the ledger
C17_Witness ==
  /\ abort /\ pc = "done" /\ hist.abortPc = "classify"
  /\ hist.callsWithAbort = 1 /\ hist.probesAfter = 1
  /\ hist.sdCount = hist.snapSd + 1 /\ disk # hist.snapDisk

\* the record of destination f in the ledger text on storage, 0 for none
Stored(text, f) == Lookup(Load(text), f)

\* a step that puts a record f -> t into storage, or changes it to t, finds
\* the destination stamped with t and the in-memory map holding f -> t
C18_StampedFirst ==
  \A f \in Files :
    (f \in DOMAIN Load(disk') /\ Stored(disk', f) # Stored(disk, f))
    => /\ dstExists[f] /\ dstMtime[f] = Stored(disk', f)
       /\ HasRecord(cache, f, Stored(disk', f))

\* a step that puts a record f -> t into the in-memory map finds the
\* destination stamped with t
C18_StampedBeforeMap ==
  \A f \in Files :
    (f \in DOMAIN cache' /\ Lookup(cache', f) # Lookup(cache, f) /\ run' = run)
    => dstExists[f] /\ dstMtime[f] = Lookup(cache', f)

\* a set_done whose os.utime raises changes neither the map nor storage
C18_FailedStamp ==
  (pc = "sd_utime" /\ fault[idx] = "utime")
  => /\ cache' = cache /\ disk' = disk /\ dstMtime' = dstMtime
     /\ pc' \notin {"sd_cache", "sd_persist"}

\* C18: set_done ordering: set_done stamps the destination's on-storage mtime
\* with the source mtime before it updates the in-memory map and before it
\* persists, so in every reachable state (a crash between the steps included)
\* a record dst -> t appears in persisted storage only after dst's mtime was
\* set to t; if stamping fails, neither the in-memory map nor storage changes.
C18_SetDoneOrder ==
  [][C18_StampedFirst /\ C18_StampedBeforeMap /\ C18_FailedStamp]_vars

\* C18 witness: the process died between the stamping and the update of the
\* map, in a set_done for a destination that the call did not write to: the
\* destination carries the source's mtime, which it did not before, and
\* storage has no record for it
C18_Witness ==
  /\ pc = "crashed" /\ hist.crashPc = "sd_cache" /\ hist.written[idx] = 0
  /\ dstMtime[idx] = srcMtime[idx] /\ srcMtime[idx] # Earlier
  /\ idx \notin DOMAIN Load(disk)

\* one turn of the loop: the probe lies strictly between the bounds, one of
\* the bounds moves to it, and the interval shrinks but not below 1
C19_LoopStep ==
  (pc = "fr_loop" /\ start + 1 < end) =>
    LET mid == (start + end) \div 2
    IN /\ start < mid /\ mid < end
       /\ \/ start' = mid /\ end' = end
          \/ start' = start /\ end' = mid
       /\ end' - start' < end - start
       /\ end' - start' >= 1
       /\ pc' = "fr_loop"

\* the loop is left with end - start <= 1, and start is what is returned
C19_LoopExit ==
  /\ (pc = "fr_loop" /\ ~(start + 1 < end)) => (pc' = "fr_ret" /\ start' = start)
  /\ pc = "fr_ret" => (pc' = "done" /\ start' = start)

\* C19: the binary search of _find_resume_position terminates for every
\* total_size >= 0 and every file content: whenever the loop runs,
\* start < mid < end, so end - start strictly decreases each iteration, and
\* the loop exits with end - start <= 1 returning start.
C19_Terminates ==
  /\ [][C19_LoopStep /\ C19_LoopExit]_vars
  /\ []((pc \in {"fr_ret", "done"} /\ start >= 0) => end - start <= 1)
  /\ <>(pc = "done")

\* C19 witness: the search has returned after two turns of the loop on files
\* of the greatest length, with the bounds one apart
C19_Witness ==
  /\ entry = "find" /\ pc = "done" /\ total = MaxLen
  /\ start = MaxLen - 1 /\ end = MaxLen

\* C20: a file whose destination path has no record in the ledger is never
\* classified Cached or Done by is_done, in either copy mode, for any source
\* and destination mtime values (mtime 0 included).
C20_NoRecordNotDone ==
  (pc = "dispatch" /\ idx \notin DOMAIN cache)
  => status \notin {"CACHED", "DONE"}

====
